---- MODULE Spec2Model ----
(***************************************************************************)
(* A model of HiveRPCEngineClient                                          *)
(* (simulators/ethereum/engine/client/hive_rpc/hive_rpc.go): the account   *)
(* nonce cache behind GetNextAccountNonce, the call memory written by the  *)
(* engine API methods, and the Authorization header the engine connection  *)
(* carries.  The node is the environment: every remote call draws its      *)
(* reply from a small set.  The test driver calls the client sequentially, *)
(* so one action is one whole method call.                                 *)
(***************************************************************************)
EXTENDS Integers, Sequences, FiniteSets, TLC

\* ------------------------------------------------------------------ bounds
\* Block hashes the node can report are 1..MaxBlock.
MaxBlock == 5
\* The node reports account nonces 0..MaxNonce.
MaxNonce == 1
\* GetNextAccountNonce is not called once it would return more than this
\* (PreviousNonce is a uint64; the model stays far below its range).
MaxCached == 2

\* ------------------------------------------------------------ the chain
\* Test accounts (common.Address keys of accTxInfoMap).
Accounts == {"a1", "a2"}

\* A header is named by its hash.  0 is the zero hash / the nil header.
\* The headers form a binary tree rooted at the genesis block 1: block b has
\* the children 2b and 2b+1, so the tree holds straight chains (1, 2, 4),
\* siblings (a one-block reorg) and jumps of any length.
Blocks == 1..MaxBlock

\* head.Hash()
Hash(h) == h

\* head.ParentHash
ParentHash(h) == h \div 2

\* head.Number
RECURSIVE Number(_)
Number(h) == IF h <= 1 THEN 0 ELSE Number(h \div 2) + 1

\* error values; NoErr is Go's nil error
NoErr == "nil"
NotFound == "ethereum.NotFound"
TransportErr == "transport error"

\* Replies of the node to eth_getBlockByNumber("latest", false): a header,
\* a null result, or a failed call.
HeadReplies ==
    {[result |-> h, err |-> NoErr] : h \in Blocks \cup {0}}
        \cup {[result |-> 0, err |-> TransportErr]}

\* Replies of the node to eth_getTransactionCount (ethclient NonceAt).
NonceReplies ==
    {[result |-> n, err |-> NoErr] : n \in 0..MaxNonce}
        \cup {[result |-> 0, err |-> TransportErr]}

VARIABLES
    accTxInfoMap,   \* ec.accTxInfoMap: account -> AccountTransactionInfo
    track,          \* history: per account, what its successful calls returned
    lastNonce,      \* history: the latest GetNextAccountNonce call
    now,            \* the clock read by time.Now(), in seconds
    authHeader,     \* the Authorization header set on ec.c (<<>>: not set)
    latestFcUStateSent,         \* ec.latestFcUStateSent
    latestPAttrSent,            \* ec.latestPAttrSent
    latestFcUResponse,          \* ec.latestFcUResponse
    latestPayloadSent,          \* ec.latestPayloadSent
    latestPayloadStatusReponse, \* ec.latestPayloadStatusReponse
    lastEngine,     \* history: the latest call on the engine connection
    lastFcU,        \* history: the latest ForkchoiceUpdatedV1 call
    lastNP,         \* history: the latest NewPayloadV1 call
    lastLookup,     \* history: the latest HeaderByNumber / GetTotalDifficulty call
    lastOp,         \* history: the name of the latest method called
    lastRead,       \* history: what the latest accessor call returned
    cStart,         \* the cache the concurrent callers start from
    cMap,           \* ec.accTxInfoMap as the map of pointers it is: account -> ref
    cHeap,          \* the AccountTransactionInfo objects the pointers refer to
    cWriting,       \* the callers inside a map assignment
    cRaced,         \* the callers whose map assignment overlapped another
    cLost,          \* history: an overlapped map assignment left no entry
    cCrashed,       \* the runtime has stopped the process (fatal error)
    cThreads,       \* each concurrent caller's position and locals
    cDone,          \* history: the concurrent calls that returned, in order
    fThreads,       \* each concurrent ForkchoiceUpdatedV1 caller's position
    fWriter,        \* history: which caller wrote each forkchoice field last
    sCall,          \* the call a sequential driver has in progress, step by step
    sWriter,        \* history: which of the driver's calls wrote each field last
    lastStart       \* history: the latest StartClient call

nonceVars == <<accTxInfoMap, track, lastNonce>>

memoryVars == <<latestFcUStateSent, latestPAttrSent, latestFcUResponse,
                latestPayloadSent, latestPayloadStatusReponse>>

engineVars == <<now, authHeader, memoryVars, lastEngine, lastFcU, lastNP>>

lookupVars == <<lastLookup>>

concVars == <<cStart, cMap, cHeap, cWriting, cRaced, cLost, cCrashed,
              cThreads, cDone>>

fcuVars == <<fThreads, fWriter, sCall, sWriter>>

startVars == <<lastStart>>

vars == <<nonceVars, engineVars, lookupVars, lastOp, lastRead, concVars,
          fcuVars, startVars>>

\* ------------------------------------------------------- HeaderByNumber
\* HeaderByNumber(ctx, number): the reply of the node, with NotFound for a
\* successful call that yields no header.
\* A HeaderByNumber that reports NotFound whenever it has no header.
HeaderByNumber_NilIsNotFound(rpc) ==
    IF rpc.result = 0
        THEN [header |-> 0, err |-> NotFound]
        ELSE [header |-> rpc.result, err |-> rpc.err]

HeaderByNumber(rpc) ==
    IF rpc.err = NoErr /\ rpc.result = 0
        THEN [header |-> 0, err |-> NotFound]
        ELSE [header |-> rpc.result, err |-> rpc.err]

\* -------------------------------------------------- GetNextAccountNonce
\* A map assignment that forgets the other keys.
MapSet_DropsOthers(m, account, info) ==
    [a \in {account} |-> info]

\* ec.accTxInfoMap[account] = info
MapSet(m, account, info) ==
    [a \in DOMAIN m \cup {account} |-> IF a = account THEN info ELSE m[a]]

\* The staleness test without its one-block tolerance.
IsUpToDate_NoParent(m, account, head) ==
    /\ account \in DOMAIN m
    /\ m[account].PreviousBlock = Hash(head)

\* No staleness test at all: any entry is reused.
IsUpToDate_AnyEntry(m, account, head) ==
    account \in DOMAIN m

\* The condition of the cache-hit branch.
IsUpToDate(m, account, head) ==
    /\ account \in DOMAIN m
    /\ \/ m[account].PreviousBlock = Hash(head)
       \/ m[account].PreviousBlock = ParentHash(head)

\* A hit that leaves the recorded head as it was.
HitInfo_KeepsBlock(info, head) ==
    [PreviousBlock |-> info.PreviousBlock,
     PreviousNonce |-> info.PreviousNonce + 1]

\* The cache-hit branch: the entry is updated in place.
HitInfo(info, head) ==
    [PreviousBlock |-> Hash(head), PreviousNonce |-> info.PreviousNonce + 1]

\* A miss that caches the nonce after the one it returns.
FreshInfo_StoresNext(head, nonce) ==
    [PreviousBlock |-> Hash(head), PreviousNonce |-> nonce + 1]

\* The entry stored after an authoritative lookup.
FreshInfo(head, nonce) ==
    [PreviousBlock |-> Hash(head), PreviousNonce |-> nonce]

\* A failed NonceAt that also invalidates the account's entry.
NonceAtFailed_DeletesEntry(m, account, head, err) ==
    [map |-> [a \in DOMAIN m \ {account} |-> m[a]], ret |-> 0, err |-> err]

\* A miss that stores its entry before it looks at NonceAt's error.
NonceAtFailed_StoresEntry(m, account, head, err) ==
    [map |-> [a \in DOMAIN m \cup {account} |->
                 IF a = account
                     THEN [PreviousBlock |-> Hash(head), PreviousNonce |-> 0]
                     ELSE m[a]],
     ret |-> 0, err |-> err]

\* The return after a failed NonceAt: the error, and the map as it was.
NonceAtFailed(m, account, head, err) ==
    [map |-> m, ret |-> 0, err |-> err]

\* A method that calls NonceAt a second time when the first call failed.
GetNextAccountNonceResult_RetriesNonceAt(m, account, headRpc, nonceRpc) ==
    LET hd == HeaderByNumber(headRpc)
        head == hd.header
    IN  IF hd.err # NoErr
            THEN [map |-> m, ret |-> 0, err |-> hd.err,
                  headLookups |-> 1, nonceLookups |-> 0, lookupAt |-> 0]
        ELSE IF IsUpToDate(m, account, head)
            THEN LET info == HitInfo(m[account], head)
                 IN  [map |-> MapSet(m, account, info),
                      ret |-> info.PreviousNonce, err |-> NoErr,
                      headLookups |-> 1, nonceLookups |-> 0, lookupAt |-> 0]
        ELSE IF nonceRpc.err # NoErr
            THEN LET r == NonceAtFailed(m, account, head, nonceRpc.err)
                 IN  [map |-> r.map, ret |-> r.ret, err |-> r.err,
                      headLookups |-> 1, nonceLookups |-> 2,
                      lookupAt |-> Number(head)]
        ELSE [map |-> MapSet(m, account, FreshInfo(head, nonceRpc.result)),
              ret |-> nonceRpc.result, err |-> NoErr,
              headLookups |-> 1, nonceLookups |-> 1,
              lookupAt |-> Number(head)]

\* The whole method: the map it leaves, what it returns, and the remote
\* calls it made.  headRpc and nonceRpc are the node's replies; nonceRpc is
\* consumed only when NonceAt is called.
GetNextAccountNonceResult(m, account, headRpc, nonceRpc) ==
    LET hd == HeaderByNumber(headRpc)
        head == hd.header
    IN  IF hd.err # NoErr
            THEN [map |-> m, ret |-> 0, err |-> hd.err,
                  headLookups |-> 1, nonceLookups |-> 0, lookupAt |-> 0]
        ELSE IF IsUpToDate(m, account, head)
            THEN LET info == HitInfo(m[account], head)
                 IN  [map |-> MapSet(m, account, info),
                      ret |-> info.PreviousNonce, err |-> NoErr,
                      headLookups |-> 1, nonceLookups |-> 0, lookupAt |-> 0]
        ELSE IF nonceRpc.err # NoErr
            THEN LET r == NonceAtFailed(m, account, head, nonceRpc.err)
                 IN  [map |-> r.map, ret |-> r.ret, err |-> r.err,
                      headLookups |-> 1, nonceLookups |-> 1,
                      lookupAt |-> Number(head)]
        ELSE [map |-> MapSet(m, account, FreshInfo(head, nonceRpc.result)),
              ret |-> nonceRpc.result, err |-> NoErr,
              headLookups |-> 1, nonceLookups |-> 1,
              lookupAt |-> Number(head)]

\* How the head a call saw relates to the head the account's previous
\* successful call saw.
Link(t, head) ==
    IF t.calls = 0 THEN "first"
    ELSE IF head = t.head THEN "same"
    ELSE IF ParentHash(head) = t.head THEN "advance"
    ELSE "break"

NoTrack == [calls |-> 0, head |-> 0, ret |-> 0, advK |-> 0, advFirst |-> 0]

\* The history after a successful call that saw `head` and returned `ret`.
\* calls counts the successful calls (0, 1, 2 = two or more); advK is the
\* length of the current run of calls each one block after the previous one,
\* advFirst what the first call of that run returned.
Tracked(t, head, ret) ==
    LET adv == Link(t, head) = "advance"
    IN  [calls |-> IF t.calls = 0 THEN 1 ELSE 2,
         head |-> head, ret |-> ret,
         advK |-> IF adv THEN t.advK + 1 ELSE 1,
         advFirst |-> IF adv THEN t.advFirst ELSE ret]

\* The reply recorded for a remote call that was not made.
NoReply == [result |-> 0, err |-> NoErr]

NoNonceCall ==
    [called |-> FALSE, account |-> "a1", headRpc |-> NoReply,
     nonceRpc |-> NoReply, head |-> 0, link |-> "none",
     ret |-> 0, err |-> NoErr, headLookups |-> 0, nonceLookups |-> 0,
     lookupAt |-> 0, pre |-> <<>>, prior |-> NoTrack]

GetNextAccountNonce(account, headRpc, nonceRpc) ==
    LET r == GetNextAccountNonceResult(accTxInfoMap, account, headRpc, nonceRpc)
        hd == HeaderByNumber(headRpc)
    IN  /\ r.ret <= MaxCached
        /\ r.nonceLookups = 0 => nonceRpc = NoReply
        /\ accTxInfoMap' = r.map
        /\ track' = IF r.err = NoErr
                        THEN [track EXCEPT ![account] =
                                  Tracked(track[account], hd.header, r.ret)]
                        ELSE track
        /\ lastNonce' =
               [called |-> TRUE, account |-> account, headRpc |-> headRpc,
                nonceRpc |-> nonceRpc,
                head |-> hd.header,
                link |-> IF hd.err = NoErr
                             THEN Link(track[account], hd.header) ELSE "none",
                ret |-> r.ret, err |-> r.err,
                headLookups |-> r.headLookups, nonceLookups |-> r.nonceLookups,
                lookupAt |-> r.lookupAt,
                pre |-> accTxInfoMap, prior |-> track[account]]
        /\ lastOp' = "GetNextAccountNonce"
        /\ UNCHANGED <<engineVars, lookupVars, lastRead,
                   concVars, fcuVars, startVars>>

InitNonce ==
    /\ accTxInfoMap = <<>>
    /\ track = [a \in Accounts |-> NoTrack]
    /\ lastNonce = NoNonceCall

NextNonce ==
    \E account \in Accounts, headRpc \in HeadReplies, nonceRpc \in NonceReplies :
        GetNextAccountNonce(account, headRpc, nonceRpc)

\* ------------------------------------------------------------ JWT tokens
\* The clock stops at MaxTime.
MaxTime == 1

\* ec.JWTSecretBytes
JWTSecretBytes == "secret"

\* error of jwt's SignedString
SigningErr == "signing error"

\* GetNewToken(jwtSecretBytes, iat): an HS256 token whose only claim is iat.
\* signs is the outcome of newToken.SignedString.
GetNewToken(jwtSecretBytes, iat, signs) ==
    IF signs
        THEN [token |-> <<"HS256", jwtSecretBytes, iat>>, err |-> NoErr]
        ELSE [token |-> <<>>, err |-> SigningErr]

\* PrepareAuthCallToken: on success the new token replaces the Authorization
\* header of ec.c; hdr is that header before the call.
PrepareAuthCallToken(hdr, jwtSecretBytes, iat, signs) ==
    LET t == GetNewToken(jwtSecretBytes, iat, signs)
    IN  IF t.err # NoErr
            THEN [header |-> hdr, err |-> t.err, minted |-> <<>>]
            ELSE [header |-> <<"Bearer", t.token>>, err |-> NoErr,
                  minted |-> t.token]

\* PrepareDefaultAuthCallToken: calls PrepareAuthCallToken with the client's
\* secret and time.Now(), drops what it returns, and returns nil.
PrepareDefaultAuthCallToken(hdr, iat, signs) ==
    LET p == PrepareAuthCallToken(hdr, JWTSecretBytes, iat, signs)
    IN  [header |-> p.header, err |-> NoErr, minted |-> p.minted]

\* ------------------------------------------------------ engine API calls
\* Go's nil pointer
Nil == "nil"

\* the zero value of a result struct
ZeroValue == "zero"

DecodeErr == "decode error"

\* Arguments the test driver passes.
FcStates == {"fcA", "fcB"}
PAttrs == {Nil, "paA"}
Payloads == {"plA", "plB"}
PayloadIDs == {"id1"}
TConfs == {"tc1"}

\* Replies of the node to a call on the engine connection: a result, a failed
\* call (result left at its zero value), or a result that decodes only in
\* part.
EngineReplies(results) ==
    {[result |-> v, err |-> NoErr] : v \in results}
        \cup {[result |-> ZeroValue, err |-> TransportErr],
              [result |-> "partial", err |-> DecodeErr]}

FcUResults == {"VALID+id1"}
PayloadStatuses == {"VALID"}
GetPayloadResults == {"plA"}
TConfResults == {"tc1"}

\* A recording that keeps the old attributes when a call passes none.
FcUSent_KeepsAttributes(old, fcState, pAttributes) ==
    <<fcState, IF pAttributes = "nil" THEN old[2] ELSE pAttributes>>

\* What ForkchoiceUpdatedV1 records as sent; old is what was recorded before.
FcUSent(old, fcState, pAttributes) == <<fcState, pAttributes>>

\* A recording of the response that keeps the first response recorded.
FcUResponse_FirstWins(old, result, err) ==
    IF old = "nil" THEN result ELSE old

\* What ForkchoiceUpdatedV1 records as the response: &result.
FcUResponse(old, result, err) == result

\* A recording of the first payload sent only.
NewPayloadSent_FirstOnly(old, payload) ==
    IF old = "nil" THEN payload ELSE old

\* What NewPayloadV1 records as sent.
NewPayloadSent(old, payload) == payload

\* A recording of the response of successful calls only.
NewPayloadResponse_OnlyOnSuccess(old, result, err) ==
    IF err = "nil" THEN result ELSE old

\* What NewPayloadV1 records as the response: &result.
NewPayloadResponse(old, result, err) == result

\* The history of a call: what was asked, what came back, whether a request
\* went to the node and with which Authorization header, and the token the
\* call minted.
EngineCall(op, req, ret, err, signs, sent, auth, minted) ==
    [op |-> op, req |-> req, ret |-> ret, err |-> err, signs |-> signs,
     sent |-> sent, auth |-> auth, minted |-> minted]

NoEngineCall == EngineCall("none", <<>>, ZeroValue, NoErr, TRUE, FALSE, <<>>, <<>>)

\* The history of the calls of one kind: the latest call, and whether the
\* call before it asked something else and got something else.
KindCall(before, req, ret, err) ==
    [called |-> TRUE, req |-> req, ret |-> ret, err |-> err,
     reqChanged |-> before.called /\ before.req # req,
     retChanged |-> before.called /\ before.ret # ret]

NoKindCall ==
    [called |-> FALSE, req |-> <<>>, ret |-> ZeroValue, err |-> NoErr,
     reqChanged |-> FALSE, retChanged |-> FALSE]

ForkchoiceUpdatedV1(fcState, pAttributes, signs, rpc) ==
    LET p == PrepareDefaultAuthCallToken(authHeader, now, signs)
        sent == FcUSent(<<latestFcUStateSent, latestPAttrSent>>,
                        fcState, pAttributes)
    IN  /\ authHeader' = p.header
        /\ IF p.err # NoErr
               THEN /\ UNCHANGED memoryVars
                    /\ lastEngine' = EngineCall("ForkchoiceUpdatedV1",
                           <<fcState, pAttributes>>, ZeroValue, p.err, signs,
                           FALSE, <<>>, p.minted)
                    /\ lastFcU' = KindCall(lastFcU, <<fcState, pAttributes>>,
                                           ZeroValue, p.err)
               ELSE /\ latestFcUStateSent' = sent[1]
                    /\ latestPAttrSent' = sent[2]
                    /\ latestFcUResponse' =
                           FcUResponse(latestFcUResponse, rpc.result, rpc.err)
                    /\ UNCHANGED <<latestPayloadSent, latestPayloadStatusReponse>>
                    /\ lastEngine' = EngineCall("ForkchoiceUpdatedV1",
                           <<fcState, pAttributes>>, rpc.result, rpc.err, signs,
                           TRUE, p.header, p.minted)
                    /\ lastFcU' = KindCall(lastFcU, <<fcState, pAttributes>>,
                                           rpc.result, rpc.err)
        /\ lastOp' = "ForkchoiceUpdatedV1"
        /\ UNCHANGED <<now, lastNP, nonceVars, lookupVars, lastRead,
                   concVars, fcuVars, startVars>>

\* A GetPayloadV1 that records the payload it obtained.
GetPayloadV1_RecordsPayload(payloadId, signs, rpc) ==
    LET p == PrepareDefaultAuthCallToken(authHeader, now, signs)
    IN  /\ authHeader' = p.header
        /\ lastEngine' =
               IF p.err # NoErr
                   THEN EngineCall("GetPayloadV1", <<payloadId>>, ZeroValue,
                                   p.err, signs, FALSE, <<>>, p.minted)
                   ELSE EngineCall("GetPayloadV1", <<payloadId>>, rpc.result,
                                   rpc.err, signs, TRUE, p.header, p.minted)
        /\ latestPayloadSent' = rpc.result
        /\ lastOp' = "GetPayloadV1"
        /\ UNCHANGED <<now, latestFcUStateSent, latestPAttrSent,
                       latestFcUResponse, latestPayloadStatusReponse,
                       lastFcU, lastNP, nonceVars, lookupVars, lastRead,
                   concVars, fcuVars, startVars>>

GetPayloadV1(payloadId, signs, rpc) ==
    LET p == PrepareDefaultAuthCallToken(authHeader, now, signs)
    IN  /\ authHeader' = p.header
        /\ lastEngine' =
               IF p.err # NoErr
                   THEN EngineCall("GetPayloadV1", <<payloadId>>, ZeroValue,
                                   p.err, signs, FALSE, <<>>, p.minted)
                   ELSE EngineCall("GetPayloadV1", <<payloadId>>, rpc.result,
                                   rpc.err, signs, TRUE, p.header, p.minted)
        /\ lastOp' = "GetPayloadV1"
        /\ UNCHANGED <<now, memoryVars, lastFcU, lastNP, nonceVars, lookupVars, lastRead,
                   concVars, fcuVars, startVars>>

NewPayloadV1(payload, signs, rpc) ==
    LET p == PrepareDefaultAuthCallToken(authHeader, now, signs)
    IN  /\ authHeader' = p.header
        /\ IF p.err # NoErr
               THEN /\ UNCHANGED memoryVars
                    /\ lastEngine' = EngineCall("NewPayloadV1", <<payload>>,
                           ZeroValue, p.err, signs, FALSE, <<>>, p.minted)
                    /\ lastNP' = KindCall(lastNP, <<payload>>, ZeroValue, p.err)
               ELSE /\ latestPayloadSent' =
                           NewPayloadSent(latestPayloadSent, payload)
                    /\ latestPayloadStatusReponse' =
                           NewPayloadResponse(latestPayloadStatusReponse,
                                              rpc.result, rpc.err)
                    /\ UNCHANGED <<latestFcUStateSent, latestPAttrSent,
                                   latestFcUResponse>>
                    /\ lastEngine' = EngineCall("NewPayloadV1", <<payload>>,
                           rpc.result, rpc.err, signs, TRUE, p.header, p.minted)
                    /\ lastNP' = KindCall(lastNP, <<payload>>, rpc.result, rpc.err)
        /\ lastOp' = "NewPayloadV1"
        /\ UNCHANGED <<now, lastFcU, nonceVars, lookupVars, lastRead,
                   concVars, fcuVars, startVars>>

\* No token is prepared; the request goes out on ec.c with the headers ec.c
\* holds.
ExchangeTransitionConfigurationV1(tConf, rpc) ==
    /\ lastEngine' = EngineCall("ExchangeTransitionConfigurationV1", <<tConf>>,
                                rpc.result, rpc.err, TRUE, TRUE, authHeader, <<>>)
    /\ lastOp' = "ExchangeTransitionConfigurationV1"
    /\ UNCHANGED <<now, authHeader, memoryVars, lastFcU, lastNP, nonceVars,
                   lookupVars, lastRead,
                   concVars, fcuVars, startVars>>

\* Time passes between calls.
Tick ==
    /\ now < MaxTime
    /\ now' = now + 1
    /\ UNCHANGED <<authHeader, memoryVars, lastEngine, lastFcU, lastNP,
                   nonceVars, lookupVars, lastOp, lastRead,
                   concVars, fcuVars, startVars>>

\* Accessors
LatestForkchoiceSent == <<latestFcUStateSent, latestPAttrSent>>
LatestNewPayloadSent == latestPayloadSent
LatestForkchoiceResponse == latestFcUResponse
LatestNewPayloadResponse == latestPayloadStatusReponse

\* A call of an accessor returns what is recorded and writes nothing.
LatestForkchoiceSentCall ==
    /\ lastRead' = LatestForkchoiceSent
    /\ lastOp' = "LatestForkchoiceSent"
    /\ UNCHANGED <<nonceVars, engineVars, lookupVars, concVars, fcuVars, startVars>>

LatestNewPayloadSentCall ==
    /\ lastRead' = <<LatestNewPayloadSent>>
    /\ lastOp' = "LatestNewPayloadSent"
    /\ UNCHANGED <<nonceVars, engineVars, lookupVars, concVars, fcuVars, startVars>>

LatestForkchoiceResponseCall ==
    /\ lastRead' = <<LatestForkchoiceResponse>>
    /\ lastOp' = "LatestForkchoiceResponse"
    /\ UNCHANGED <<nonceVars, engineVars, lookupVars, concVars, fcuVars, startVars>>

LatestNewPayloadResponseCall ==
    /\ lastRead' = <<LatestNewPayloadResponse>>
    /\ lastOp' = "LatestNewPayloadResponse"
    /\ UNCHANGED <<nonceVars, engineVars, lookupVars, concVars, fcuVars, startVars>>

NextAccessors ==
    \/ LatestForkchoiceSentCall
    \/ LatestNewPayloadSentCall
    \/ LatestForkchoiceResponseCall
    \/ LatestNewPayloadResponseCall

InitEngine ==
    /\ now = 0
    /\ authHeader = <<>>
    /\ latestFcUStateSent = Nil
    /\ latestPAttrSent = Nil
    /\ latestFcUResponse = Nil
    /\ latestPayloadSent = Nil
    /\ latestPayloadStatusReponse = Nil
    /\ lastEngine = NoEngineCall
    /\ lastFcU = NoKindCall
    /\ lastNP = NoKindCall

NextEngine ==
    \/ Tick
    \/ \E fcState \in FcStates, pAttributes \in PAttrs, signs \in BOOLEAN,
          rpc \in EngineReplies(FcUResults) :
           ForkchoiceUpdatedV1(fcState, pAttributes, signs, rpc)
    \/ \E payloadId \in PayloadIDs, signs \in BOOLEAN,
          rpc \in EngineReplies(GetPayloadResults) :
           GetPayloadV1(payloadId, signs, rpc)
    \/ \E payload \in Payloads, signs \in BOOLEAN,
          rpc \in EngineReplies(PayloadStatuses) :
           NewPayloadV1(payload, signs, rpc)
    \/ \E tConf \in TConfs, rpc \in EngineReplies(TConfResults) :
           ExchangeTransitionConfigurationV1(tConf, rpc)

\* ------------------------------------------------- block number argument
\* Heights passed to HeaderByNumber are at most MaxHeight.
MaxHeight == 260
\* The node reports total difficulties 0..MaxTD.
MaxTD == 17

\* A *big.Int is <<>> (nil) or <<n>>.
\* Head (nil); the name Head is the Sequences operator
HeadBlock == <<>>
Pending == <<-2>>
Finalized == <<-3>>
Safe == <<-4>>

\* big.Int.Text(16) of a positive number, as a sequence of characters
RECURSIVE Text16(_)
Text16(n) ==
    LET digit == <<"0", "1", "2", "3", "4", "5", "6", "7",
                   "8", "9", "a", "b", "c", "d", "e", "f">>[(n % 16) + 1]
    IN  IF n < 16 THEN <<digit>> ELSE Append(Text16(n \div 16), digit)

\* hexutil.EncodeBig
EncodeBig(n) ==
    IF n = 0 THEN <<"0", "x", "0">>
    ELSE IF n > 0 THEN <<"0", "x">> \o Text16(n)
    ELSE <<"-", "0", "x">> \o Text16(-n)

\* The value of a sequence of hex digits (hexutil's decoding of a quantity)
RECURSIVE HexValue(_)
HexValue(digits) ==
    IF digits = <<>> THEN 0
    ELSE LET d == digits[Len(digits)]
             v == CHOOSE k \in 0..15 : Text16(k) = <<d>>
         IN  16 * HexValue(SubSeq(digits, 1, Len(digits) - 1)) + v

\* A toBlockNumArg without the case of Safe.
toBlockNumArg_NoSafe(number) ==
    IF number = <<>> THEN <<"l", "a", "t", "e", "s", "t">>
    ELSE IF number[1] = -2 THEN <<"p", "e", "n", "d", "i", "n", "g">>
    ELSE IF number[1] = -3
        THEN <<"f", "i", "n", "a", "l", "i", "z", "e", "d">>
    ELSE EncodeBig(number[1])

toBlockNumArg(number) ==
    IF number = HeadBlock THEN <<"l", "a", "t", "e", "s", "t">>
    ELSE IF number[1] = Pending[1] THEN <<"p", "e", "n", "d", "i", "n", "g">>
    ELSE IF number[1] = Finalized[1]
        THEN <<"f", "i", "n", "a", "l", "i", "z", "e", "d">>
    ELSE IF number[1] = Safe[1] THEN <<"s", "a", "f", "e">>
    ELSE EncodeBig(number[1])

\* Arguments the test driver passes to HeaderByNumber.
Numbers == {HeadBlock} \cup {<<n>> : n \in -5..MaxHeight}

\* ---------------------------------------------------- GetTotalDifficulty
\* What the node answers to eth_getBlockByNumber("latest", false), seen as a
\* TotalDifficultyHeader: a block with or without the totalDifficulty field,
\* null, something that is no block, or a failed call.
TDReplyKinds == {"block+td", "block", "null", "malformed", "failed"}

TDReply(kind, n) ==
    [kind |-> kind,
     err |-> IF kind = "failed" THEN TransportErr ELSE NoErr,
     totalDifficulty |-> IF kind = "block+td" THEN EncodeBig(n) ELSE <<>>]

\* TotalDifficultyHeader.UnmarshalJSON: the header fields, then the TD field
\* from the same data.  A field that is absent leaves its pointer nil.
UnmarshalJSON(reply) ==
    IF reply.kind = "malformed"
        THEN [TotalDifficulty |-> <<>>, err |-> DecodeErr]
    ELSE IF reply.totalDifficulty = <<>>
        THEN [TotalDifficulty |-> <<>>, err |-> NoErr]
    ELSE [TotalDifficulty |->
              <<HexValue(SubSeq(reply.totalDifficulty, 3,
                                Len(reply.totalDifficulty)))>>,
          err |-> NoErr]

\* GetTotalDifficulty: what it returns; a null reply leaves td nil, and
\* td.TotalDifficulty then dereferences it.
GetTotalDifficulty(reply) ==
    IF reply.err # NoErr
        THEN [ret |-> <<>>, err |-> reply.err, panics |-> FALSE]
    ELSE IF reply.kind = "null"
        THEN [ret |-> <<>>, err |-> NoErr, panics |-> TRUE]
    ELSE LET td == UnmarshalJSON(reply)
         IN  IF td.err # NoErr
                 THEN [ret |-> <<>>, err |-> td.err, panics |-> FALSE]
                 ELSE [ret |-> td.TotalDifficulty, err |-> NoErr,
                       panics |-> FALSE]

\* The history of a lookup.
Lookup(op, number, arg, rpc, header, err, kind, sent, ret, panics) ==
    [op |-> op, number |-> number, arg |-> arg, rpc |-> rpc,
     header |-> header, err |-> err, kind |-> kind, sent |-> sent,
     ret |-> ret, panics |-> panics]

NoLookup == Lookup("none", <<>>, <<>>, NoReply, 0, NoErr, "none", 0, <<>>, FALSE)

HeaderByNumberCall(number, rpc) ==
    LET r == HeaderByNumber(rpc)
    IN  /\ lastLookup' = Lookup("HeaderByNumber", number, toBlockNumArg(number),
                                rpc, r.header, r.err, "none", 0, <<>>, FALSE)
        /\ lastOp' = "HeaderByNumber"
        /\ UNCHANGED <<nonceVars, engineVars, lastRead, concVars, fcuVars, startVars>>

GetTotalDifficultyCall(kind, n) ==
    LET r == GetTotalDifficulty(TDReply(kind, n))
    IN  /\ kind # "block+td" => n = 0
        /\ lastLookup' = Lookup("GetTotalDifficulty", HeadBlock,
                                toBlockNumArg(HeadBlock),
                                NoReply, 0, r.err, kind, n, r.ret, r.panics)
        /\ lastOp' = "GetTotalDifficulty"
        /\ UNCHANGED <<nonceVars, engineVars, lastRead, concVars, fcuVars, startVars>>

InitLookup ==
    /\ lastLookup = NoLookup
    /\ lastOp = "none"
    /\ lastRead = <<>>

NextLookup ==
    \/ \E number \in Numbers, rpc \in HeadReplies :
           HeaderByNumberCall(number, rpc)
    \/ \E kind \in TDReplyKinds, n \in 0..MaxTD :
           GetTotalDifficultyCall(kind, n)

\* ------------------------------------ GetNextAccountNonce, step by step
\* The method has no lock, so concurrent callers interleave at its reads and
\* writes of shared memory.  The map holds pointers: a caller on the hit
\* branch writes through the pointer it read, a caller on the miss branch
\* assigns a new object to the map.
\* The concurrent callers make at most MaxConcCalls calls in all.
MaxConcCalls == 3

Threads == {"t1", "t2"}

\* Heads and nonces the node reports while the callers run.
ConcHeadReplies ==
    {[result |-> h, err |-> NoErr] : h \in {1, 2}}

ConcNonceReplies ==
    {[result |-> 0, err |-> NoErr], [result |-> 0, err |-> TransportErr]}

\* The caches earlier, sequential calls can have left.
StartCaches ==
    UNION {[D -> [PreviousBlock : {Hash(1), Hash(2)}, PreviousNonce : {0}]] :
               D \in SUBSET Accounts}

\* The cache as the sequential method sees it: every pointer followed.
CacheView == [a \in DOMAIN cMap |-> cHeap[cMap[a]]]

IdleThread ==
    [pc |-> "idle", account |-> "a1", headRpc |-> NoReply, nonceRpc |-> NoReply,
     head |-> 0, ref |-> 0, tmp |-> 0, overlap |-> FALSE]

Started == Len(cDone) + Cardinality({t \in Threads : cThreads[t].pc # "idle"})

\* The call of thread t returns (ret, err).
Return(t, th, ret, err) ==
    /\ cDone' = Append(cDone,
           [account |-> th.account, headRpc |-> th.headRpc,
            nonceRpc |-> th.nonceRpc, head |-> th.head, ret |-> ret,
            err |-> err, overlap |-> th.overlap])
    /\ cThreads' = [cThreads EXCEPT ![t] = IdleThread]

\* What the sequential methods and the forkchoice callers hold.
seqVars ==
    <<nonceVars, engineVars, lookupVars, lastOp, lastRead, fcuVars, startVars>>

\* fatal error: concurrent map writes / concurrent map read and map write
FatalError ==
    /\ cCrashed' = TRUE
    /\ UNCHANGED <<cStart, cMap, cHeap, cWriting, cRaced, cLost, cThreads, cDone>>

\* A caller enters the method (332-335); a call on an account another call is
\* working on overlaps it.
CallStart(t, account) ==
    LET same == {u \in Threads \ {t} : cThreads[u].pc # "idle"
                                        /\ cThreads[u].account = account}
    IN  /\ ~cCrashed
        /\ UNCHANGED seqVars
        /\ cThreads[t].pc = "idle"
        /\ Started < MaxConcCalls
        /\ cThreads' =
               [u \in Threads |->
                   IF u = t
                       THEN [IdleThread EXCEPT !.pc = "HeaderByNumber",
                                               !.account = account,
                                               !.overlap = same # {}]
                   ELSE IF u \in same
                       THEN [cThreads[u] EXCEPT !.overlap = TRUE]
                   ELSE cThreads[u]]
        /\ UNCHANGED <<cStart, cMap, cHeap, cWriting, cRaced, cLost, cCrashed,
                       cDone>>

\* 336-339: the head lookup returns.
HeadReturns(t, rpc) ==
    LET hd == HeaderByNumber(rpc)
        th == [cThreads[t] EXCEPT !.headRpc = rpc, !.head = hd.header]
    IN  /\ ~cCrashed
        /\ UNCHANGED seqVars
        /\ cThreads[t].pc = "HeaderByNumber"
        /\ IF hd.err # NoErr
               THEN Return(t, th, 0, hd.err)
               ELSE /\ cThreads' = [cThreads EXCEPT ![t] =
                                       [th EXCEPT !.pc = "lookup"]]
                    /\ UNCHANGED cDone
        /\ UNCHANGED <<cStart, cMap, cHeap, cWriting, cRaced, cLost, cCrashed>>

\* 341: the map read and the staleness test.  A read while another caller is
\* inside a map assignment is a data race: the runtime stops the process, or
\* the read goes through.
MapLookup(t) ==
    LET th == cThreads[t]
    IN  /\ ~cCrashed
        /\ UNCHANGED seqVars
        /\ th.pc = "lookup"
        /\ \/ cWriting # {} /\ FatalError
           \/ /\ cThreads' = [cThreads EXCEPT ![t] =
                     IF IsUpToDate(CacheView, th.account, th.head)
                         THEN [th EXCEPT !.pc = "hit", !.ref = cMap[th.account]]
                         ELSE [th EXCEPT !.pc = "NonceAt"]]
              /\ UNCHANGED <<cStart, cMap, cHeap, cWriting, cRaced, cLost,
                             cCrashed, cDone>>

\* 344: accTxInfo.PreviousBlock = head.Hash()
HitWriteBlock(t) ==
    LET th == cThreads[t]
    IN  /\ ~cCrashed
        /\ UNCHANGED seqVars
        /\ th.pc = "hit"
        /\ cHeap' = [cHeap EXCEPT ![th.ref] =
               [@ EXCEPT !.PreviousBlock =
                             HitInfo(cHeap[th.ref], th.head).PreviousBlock]]
        /\ cThreads' = [cThreads EXCEPT ![t] = [th EXCEPT !.pc = "load"]]
        /\ UNCHANGED <<cStart, cMap, cWriting, cRaced, cLost, cCrashed, cDone>>

\* 345: accTxInfo.PreviousNonce++, the load and the addition
HitLoadNonce(t) ==
    LET th == cThreads[t]
    IN  /\ ~cCrashed
        /\ UNCHANGED seqVars
        /\ th.pc = "load"
        /\ cThreads' = [cThreads EXCEPT ![t] =
               [th EXCEPT !.pc = "store",
                          !.tmp = HitInfo(cHeap[th.ref], th.head).PreviousNonce]]
        /\ UNCHANGED <<cStart, cMap, cHeap, cWriting, cRaced, cLost, cCrashed,
                       cDone>>

\* 345: accTxInfo.PreviousNonce++, the store
HitStoreNonce(t) ==
    LET th == cThreads[t]
    IN  /\ ~cCrashed
        /\ UNCHANGED seqVars
        /\ th.pc = "store"
        /\ cHeap' = [cHeap EXCEPT ![th.ref] =
               [@ EXCEPT !.PreviousNonce = th.tmp]]
        /\ cThreads' = [cThreads EXCEPT ![t] = [th EXCEPT !.pc = "return"]]
        /\ UNCHANGED <<cStart, cMap, cWriting, cRaced, cLost, cCrashed, cDone>>

\* 346: return accTxInfo.PreviousNonce, nil
HitReturn(t) ==
    LET th == cThreads[t]
    IN  /\ ~cCrashed
        /\ UNCHANGED seqVars
        /\ th.pc = "return"
        /\ Return(t, th, cHeap[th.ref].PreviousNonce, NoErr)
        /\ UNCHANGED <<cStart, cMap, cHeap, cWriting, cRaced, cLost, cCrashed>>

\* 351-354: NonceAt returns.
NonceAtReturns(t, rpc) ==
    LET th == [cThreads[t] EXCEPT !.nonceRpc = rpc]
    IN  /\ ~cCrashed
        /\ UNCHANGED seqVars
        /\ cThreads[t].pc = "NonceAt"
        /\ IF rpc.err # NoErr
               THEN Return(t, th, 0, rpc.err)
               ELSE /\ cThreads' = [cThreads EXCEPT ![t] =
                           [th EXCEPT !.pc = "assign", !.tmp = rpc.result]]
                    /\ UNCHANGED cDone
        /\ UNCHANGED <<cStart, cMap, cHeap, cWriting, cRaced, cLost, cCrashed>>

\* 355: the map assignment begins.  When another caller is inside a map
\* assignment the runtime stops the process, or fails to notice.
AssignBegin(t) ==
    LET th == cThreads[t]
    IN  /\ ~cCrashed
        /\ UNCHANGED seqVars
        /\ th.pc = "assign"
        /\ \/ cWriting # {} /\ FatalError
           \/ /\ cWriting' = cWriting \cup {t}
              /\ cRaced' = IF cWriting # {}
                               THEN cRaced \cup cWriting \cup {t} ELSE cRaced
              /\ cThreads' = [cThreads EXCEPT ![t] =
                                 [th EXCEPT !.pc = "assigning"]]
              /\ UNCHANGED <<cStart, cMap, cHeap, cLost, cCrashed, cDone>>

\* 355-359: the map assignment ends and the method returns.  An assignment
\* that overlapped another one is a data race on the map: the runtime stops
\* the process, or the entry is in the map, or it is not.
AssignEnd(t) ==
    LET th == cThreads[t]
    IN  /\ ~cCrashed
        /\ UNCHANGED seqVars
        /\ th.pc = "assigning"
        /\ \/ t \in cRaced /\ FatalError
           \/ /\ t \in cRaced
              /\ cLost' = TRUE
              /\ cWriting' = cWriting \ {t}
              /\ cRaced' = cRaced \ {t}
              /\ Return(t, th, th.tmp, NoErr)
              /\ UNCHANGED <<cStart, cMap, cHeap, cCrashed>>
           \/ /\ cHeap' = Append(cHeap, FreshInfo(th.head, th.tmp))
              /\ cMap' = MapSet(cMap, th.account, Len(cHeap) + 1)
              /\ cWriting' = cWriting \ {t}
              /\ cRaced' = cRaced \ {t}
              /\ Return(t, th, th.tmp, NoErr)
              /\ UNCHANGED <<cStart, cLost, cCrashed>>

\* The callers start from the cache `start`.
ConcStart(start) ==
    LET n == Cardinality(DOMAIN start)
        order == CHOOSE q \in [1..n -> DOMAIN start] :
                     \A i, j \in 1..n : i # j => q[i] # q[j]
    IN  /\ cStart = start
        /\ cHeap = [i \in 1..n |-> start[order[i]]]
        /\ cMap = [a \in DOMAIN start |-> CHOOSE i \in 1..n : order[i] = a]
        /\ cWriting = {}
        /\ cRaced = {}
        /\ cLost = FALSE
        /\ cCrashed = FALSE
        /\ cThreads = [t \in Threads |-> IdleThread]
        /\ cDone = <<>>

NextConc ==
    \/ \E t \in Threads, account \in Accounts : CallStart(t, account)
    \/ \E t \in Threads, rpc \in ConcHeadReplies : HeadReturns(t, rpc)
    \/ \E t \in Threads : MapLookup(t)
    \/ \E t \in Threads : HitWriteBlock(t)
    \/ \E t \in Threads : HitLoadNonce(t)
    \/ \E t \in Threads : HitStoreNonce(t)
    \/ \E t \in Threads : HitReturn(t)
    \/ \E t \in Threads, rpc \in ConcNonceReplies : NonceAtReturns(t, rpc)
    \/ \E t \in Threads : AssignBegin(t)
    \/ \E t \in Threads : AssignEnd(t)

\* ------------------------------------ ForkchoiceUpdatedV1, step by step
\* Two goroutines call ForkchoiceUpdatedV1 once each; the method has no lock,
\* so the callers interleave at its four writes of shared memory.
FThreads == {"f1", "f2"}

IdleFcU ==
    [pc |-> "idle", fcState |-> "fcA", pAttributes |-> Nil,
     rpc |-> [result |-> ZeroValue, err |-> NoErr]]

\* What the sequential methods and the nonce callers hold.
otherVars ==
    <<nonceVars, now, latestPayloadSent, latestPayloadStatusReponse, lastEngine,
      lastFcU, lastNP, lookupVars, lastOp, lastRead, concVars, sCall, sWriter,
      startVars>>

\* 294-298: the call begins and sets its token on the connection.
FcUStart(t, fcState, pAttributes) ==
    /\ fThreads[t].pc = "idle"
    /\ authHeader' = PrepareDefaultAuthCallToken(authHeader, now, TRUE).header
    /\ fThreads' = [fThreads EXCEPT ![t] =
           [IdleFcU EXCEPT !.pc = "state", !.fcState = fcState,
                           !.pAttributes = pAttributes]]
    /\ UNCHANGED <<latestFcUStateSent, latestPAttrSent, latestFcUResponse,
                   fWriter, otherVars>>

\* 299: ec.latestFcUStateSent = fcState
FcUWriteState(t) ==
    LET th == fThreads[t]
    IN  /\ th.pc = "state"
        /\ latestFcUStateSent' =
               FcUSent(<<latestFcUStateSent, latestPAttrSent>>,
                       th.fcState, th.pAttributes)[1]
        /\ fWriter' = [fWriter EXCEPT !.state = t]
        /\ fThreads' = [fThreads EXCEPT ![t] = [th EXCEPT !.pc = "attributes"]]
        /\ UNCHANGED <<authHeader, latestPAttrSent, latestFcUResponse, otherVars>>

\* 300: ec.latestPAttrSent = pAttributes
FcUWriteAttributes(t) ==
    LET th == fThreads[t]
    IN  /\ th.pc = "attributes"
        /\ latestPAttrSent' =
               FcUSent(<<latestFcUStateSent, latestPAttrSent>>,
                       th.fcState, th.pAttributes)[2]
        /\ fWriter' = [fWriter EXCEPT !.attributes = t]
        /\ fThreads' = [fThreads EXCEPT ![t] = [th EXCEPT !.pc = "call"]]
        /\ UNCHANGED <<authHeader, latestFcUStateSent, latestFcUResponse,
                       otherVars>>

\* 301: ec.c.CallContext returns.
FcUCallReturns(t, rpc) ==
    LET th == fThreads[t]
    IN  /\ th.pc = "call"
        /\ fThreads' = [fThreads EXCEPT ![t] =
               [th EXCEPT !.pc = "response", !.rpc = rpc]]
        /\ UNCHANGED <<authHeader, latestFcUStateSent, latestPAttrSent,
                       latestFcUResponse, fWriter, otherVars>>

\* 302-303: ec.latestFcUResponse = &result; return
FcUWriteResponse(t) ==
    LET th == fThreads[t]
    IN  /\ th.pc = "response"
        /\ latestFcUResponse' =
               FcUResponse(latestFcUResponse, th.rpc.result, th.rpc.err)
        /\ fWriter' = [fWriter EXCEPT !.response = t]
        /\ fThreads' = [fThreads EXCEPT ![t] = [th EXCEPT !.pc = "returned"]]
        /\ UNCHANGED <<authHeader, latestFcUStateSent, latestPAttrSent,
                       otherVars>>

NextFcU ==
    \/ \E t \in FThreads, fcState \in FcStates, pAttributes \in PAttrs :
           FcUStart(t, fcState, pAttributes)
    \/ \E t \in FThreads : FcUWriteState(t)
    \/ \E t \in FThreads : FcUWriteAttributes(t)
    \/ \E t \in FThreads, rpc \in EngineReplies(FcUResults) :
           FcUCallReturns(t, rpc)
    \/ \E t \in FThreads : FcUWriteResponse(t)

\* ------------------- ForkchoiceUpdatedV1 and NewPayloadV1, one at a time
\* One driver calls the two recording methods one after the other; each call
\* is taken statement by statement, so that the states inside a call are
\* states of the model.
\* The driver makes at most MaxSeqCalls calls.
MaxSeqCalls == 3

NoSeqCall ==
    [pc |-> "idle", kind |-> "none", req |-> <<>>, signs |-> TRUE,
     minted |-> <<>>, rpc |-> [result |-> ZeroValue, err |-> NoErr], n |-> 0]

\* What the nonce, lookup and concurrent callers hold.
restVars ==
    <<nonceVars, now, lookupVars, lastRead, concVars, fThreads, fWriter,
      startVars>>

\* 294-298, 315-318: the call begins and prepares its token; the n-th call.
SeqStart(kind, req, signs) ==
    LET p == PrepareDefaultAuthCallToken(authHeader, now, signs)
    IN  /\ sCall.pc = "idle"
        /\ sCall.n < MaxSeqCalls
        /\ authHeader' = p.header
        /\ sCall' = [NoSeqCall EXCEPT
               !.pc = IF kind = "ForkchoiceUpdatedV1" THEN "state" ELSE "payload",
               !.kind = kind, !.req = req, !.signs = signs,
               !.minted = p.minted, !.n = sCall.n + 1]
        /\ UNCHANGED <<memoryVars, lastEngine, lastFcU, lastNP, lastOp, sWriter,
                       restVars>>

\* 299: ec.latestFcUStateSent = fcState
SeqWriteState ==
    /\ sCall.pc = "state"
    /\ latestFcUStateSent' =
           FcUSent(<<latestFcUStateSent, latestPAttrSent>>,
                   sCall.req[1], sCall.req[2])[1]
    /\ sWriter' = [sWriter EXCEPT !.state = sCall.n]
    /\ sCall' = [sCall EXCEPT !.pc = "attributes"]
    /\ UNCHANGED <<authHeader, latestPAttrSent, latestFcUResponse,
                   latestPayloadSent, latestPayloadStatusReponse, lastEngine,
                   lastFcU, lastNP, lastOp, restVars>>

\* 300: ec.latestPAttrSent = pAttributes
SeqWriteAttributes ==
    /\ sCall.pc = "attributes"
    /\ latestPAttrSent' =
           FcUSent(<<latestFcUStateSent, latestPAttrSent>>,
                   sCall.req[1], sCall.req[2])[2]
    /\ sWriter' = [sWriter EXCEPT !.attributes = sCall.n]
    /\ sCall' = [sCall EXCEPT !.pc = "call"]
    /\ UNCHANGED <<authHeader, latestFcUStateSent, latestFcUResponse,
                   latestPayloadSent, latestPayloadStatusReponse, lastEngine,
                   lastFcU, lastNP, lastOp, restVars>>

\* 319: ec.latestPayloadSent = payload
SeqWritePayload ==
    /\ sCall.pc = "payload"
    /\ latestPayloadSent' = NewPayloadSent(latestPayloadSent, sCall.req[1])
    /\ sWriter' = [sWriter EXCEPT !.payload = sCall.n]
    /\ sCall' = [sCall EXCEPT !.pc = "call"]
    /\ UNCHANGED <<authHeader, latestFcUStateSent, latestPAttrSent,
                   latestFcUResponse, latestPayloadStatusReponse, lastEngine,
                   lastFcU, lastNP, lastOp, restVars>>

\* 301, 320: ec.c.CallContext returns.
SeqCallReturns(rpc) ==
    /\ sCall.pc = "call"
    /\ rpc \in EngineReplies(IF sCall.kind = "ForkchoiceUpdatedV1"
                                THEN FcUResults ELSE PayloadStatuses)
    /\ sCall' = [sCall EXCEPT !.pc = "response", !.rpc = rpc]
    /\ UNCHANGED <<authHeader, memoryVars, lastEngine, lastFcU, lastNP, lastOp,
                   sWriter, restVars>>

\* 302-303, 321-322: the response is recorded and the method returns.
SeqWriteResponse ==
    LET rpc == sCall.rpc
    IN  /\ sCall.pc = "response"
        /\ IF sCall.kind = "ForkchoiceUpdatedV1"
               THEN /\ latestFcUResponse' =
                           FcUResponse(latestFcUResponse, rpc.result, rpc.err)
                    /\ sWriter' = [sWriter EXCEPT !.fcuResponse = sCall.n]
                    /\ lastFcU' = KindCall(lastFcU, sCall.req, rpc.result, rpc.err)
                    /\ UNCHANGED <<latestPayloadStatusReponse, lastNP>>
               ELSE /\ latestPayloadStatusReponse' =
                           NewPayloadResponse(latestPayloadStatusReponse,
                                              rpc.result, rpc.err)
                    /\ sWriter' = [sWriter EXCEPT !.npResponse = sCall.n]
                    /\ lastNP' = KindCall(lastNP, sCall.req, rpc.result, rpc.err)
                    /\ UNCHANGED <<latestFcUResponse, lastFcU>>
        /\ lastEngine' = EngineCall(sCall.kind, sCall.req, rpc.result, rpc.err,
                                    sCall.signs, TRUE, authHeader, sCall.minted)
        /\ lastOp' = sCall.kind
        /\ sCall' = [NoSeqCall EXCEPT !.n = sCall.n]
        /\ UNCHANGED <<authHeader, latestFcUStateSent, latestPAttrSent,
                       latestPayloadSent, restVars>>

NextSeq ==
    \/ \E fcState \in FcStates, pAttributes \in PAttrs, signs \in BOOLEAN :
           SeqStart("ForkchoiceUpdatedV1", <<fcState, pAttributes>>, signs)
    \/ \E payload \in Payloads, signs \in BOOLEAN :
           SeqStart("NewPayloadV1", <<payload>>, signs)
    \/ SeqWriteState
    \/ SeqWriteAttributes
    \/ SeqWritePayload
    \/ \E rpc \in EngineReplies(FcUResults \cup PayloadStatuses) :
           SeqCallReturns(rpc)
    \/ SeqWriteResponse

InitSeq ==
    /\ sCall = NoSeqCall
    /\ sWriter = [state |-> 0, attributes |-> 0, fcuResponse |-> 0,
                  payload |-> 0, npResponse |-> 0]

InitFcU ==
    /\ fThreads = [t \in FThreads |-> IdleFcU]
    /\ fWriter = [state |-> "none", attributes |-> "none", response |-> "none"]

\* ------------------------------------------------------------ StartClient
\* Terminal total difficulties given to the starter directly are at most
\* MaxTTD; the difficulty of the genesis block is at most MaxDifficulty.
MaxTTD == 11
MaxDifficulty == 1

DecDigits == <<"0", "1", "2", "3", "4", "5", "6", "7", "8", "9">>

\* The value of a sequence of decimal digits
RECURSIVE DecValue(_)
DecValue(digits) ==
    IF digits = <<>> THEN 0
    ELSE LET d == digits[Len(digits)]
             v == CHOOSE k \in 0..9 : DecDigits[k + 1] = d
         IN  10 * DecValue(SubSeq(digits, 1, Len(digits) - 1)) + v

\* new(big.Int).SetString(str, 10): an optional sign, then digits only.
SetString(str) ==
    LET signed == str # <<>> /\ str[1] \in {"+", "-"}
        digits == IF signed THEN Tail(str) ELSE str
        ok == /\ digits # <<>>
              /\ \A i \in 1..Len(digits) :
                     \E k \in 1..10 : DecDigits[k] = digits[i]
    IN  IF ~ok THEN [value |-> <<>>, ok |-> FALSE]
        ELSE [value |-> <<IF str[1] = "-" THEN -DecValue(digits)
                                           ELSE DecValue(digits)>>,
              ok |-> TRUE]

\* fmt.Sprintf("%d", n) for n >= 0
RECURSIVE Sprintf(_)
Sprintf(n) ==
    IF n < 10 THEN <<DecDigits[n + 1]>>
    ELSE Append(Sprintf(n \div 10), DecDigits[(n % 10) + 1])

\* helper.CalculateRealTTD: the difficulty of the genesis block plus ttd
CalculateRealTTD(genesis, ttd) == genesis[1] + ttd

\* What the HIVE_TERMINAL_TOTAL_DIFFICULTY parameter can hold.
TTDStrings ==
    {<<"1", "2">>, <<"-", "3">>, <<>>, <<"0", "x", "1">>, <<"1", "2", " ">>}

\* The starter's fields and the arguments of a StartClient call.  An absent
\* value (empty string, zero, nil, missing key) is <<>>; genesis holds the
\* difficulty of /genesis.json when the file is supplied; bootClients is
\* "none", or says whether the boot client's EnodeURL succeeds.
StartInputs ==
    [ClientType : {<<>>, <<"geth">>},
     clientTypes : {"error", "empty", "listed"},
     EnginePort : {<<>>},
     JWTSecret : {<<>>},
     ChainFile : {<<>>, <<"chain.rlp">>},
     genesis : {<<>>, <<MaxDifficulty>>},
     TerminalTotalDifficulty : {<<>>, <<MaxTTD>>},
     ttdParam : {<<>>} \cup {<<str>> : str \in TTDStrings},
     bootClients : {"none", "enode", "error"},
     live : BOOLEAN]

ClientTypesErr == "simulator returned error on trying to get all client types"
NoClientTypesErr == "simulator returned empty client types"
GenesisErr == "Cannot start without genesis file"
ParseTTDErr == "Unable to parse TTD from parameters"
BootnodeErr == "Unable to obtain bootnode"
NeverLiveErr == "Engine/Eth ports were never open for client"

\* A return before the node is started.
Refused(err) ==
    [err |-> err, started |-> FALSE, client |-> <<>>, params |-> <<>>]

\* A StartClient that starts the node before it looks at the parameters.
StartClientResult_StartsFirst(in) ==
    IF in.genesis = <<>>
        THEN [err |-> GenesisErr, started |-> FALSE, client |-> <<>>,
              params |-> <<>>]
    ELSE IF in.TerminalTotalDifficulty = <<>> /\ in.ttdParam # <<>>
                /\ ~SetString(in.ttdParam[1]).ok
        THEN [err |-> ParseTTDErr, started |-> TRUE, client |-> <<>>,
              params |-> <<>>]
    ELSE [err |-> NeverLiveErr, started |-> TRUE, client |-> <<>>,
          params |-> <<>>]

\* StartClient: the error it returns, whether T.StartClient was called, the
\* client it constructed and the parameters the node was started with.
StartClientResult(in) ==
    LET typeKnown == in.ClientType # <<>> \/ in.clientTypes = "listed"
        clientType == IF in.ClientType # <<>> THEN in.ClientType
                      ELSE <<"first listed">>
        enginePort == IF in.EnginePort = <<>> THEN <<"globals.EnginePortHTTP">>
                      ELSE in.EnginePort
        jwtSecret == IF in.JWTSecret = <<>>
                         THEN <<"globals.DefaultJwtTokenSecretBytes">>
                         ELSE in.JWTSecret
        parsed == IF in.ttdParam = <<>> THEN [value |-> <<>>, ok |-> TRUE]
                  ELSE SetString(in.ttdParam[1])
        ttd == IF in.TerminalTotalDifficulty = <<>> THEN parsed.value
               ELSE in.TerminalTotalDifficulty
        ttdParam == IF in.TerminalTotalDifficulty = <<>> THEN in.ttdParam
                    ELSE <<Sprintf(CalculateRealTTD(in.genesis,
                                       in.TerminalTotalDifficulty[1]))>>
        params == [HIVE_TERMINAL_TOTAL_DIFFICULTY |-> ttdParam,
                   HIVE_BOOTNODE |-> IF in.bootClients = "none" THEN <<>>
                                     ELSE <<"enode">>,
                   chain |-> in.ChainFile, clientType |-> clientType]
    IN  IF in.ClientType = <<>> /\ in.clientTypes = "error"
            THEN Refused(ClientTypesErr)
        ELSE IF in.ClientType = <<>> /\ in.clientTypes = "empty"
            THEN Refused(NoClientTypesErr)
        ELSE IF in.genesis = <<>>
            THEN Refused(GenesisErr)
        ELSE IF in.TerminalTotalDifficulty = <<>> /\ ~parsed.ok
            THEN Refused(ParseTTDErr)
        ELSE IF in.bootClients = "error"
            THEN Refused(BootnodeErr)
        ELSE IF ~in.live
            THEN [err |-> NeverLiveErr, started |-> TRUE, client |-> <<>>,
                  params |-> <<params>>]
        ELSE [err |-> NoErr, started |-> TRUE,
              client |-> <<[enginePort |-> enginePort,
                            JWTSecretBytes |-> jwtSecret, ttd |-> ttd]>>,
              params |-> <<params>>]

NoStart == [called |-> FALSE, in |-> <<>>, out |-> Refused(NoErr)]

StartClient(in) ==
    /\ lastStart' = [called |-> TRUE, in |-> <<in>>, out |-> StartClientResult(in)]
    /\ UNCHANGED <<nonceVars, engineVars, lookupVars, lastOp, lastRead,
                   concVars, fcuVars>>

InitStart == lastStart = NoStart

NextStart == \E in \in StartInputs : StartClient(in)

\* ------------------------------------------------------- specifications
InitSequential ==
    InitNonce /\ InitEngine /\ InitLookup /\ InitFcU /\ InitSeq /\ InitStart

Init == InitSequential /\ ConcStart(<<>>)

\* The starting states of concurrent GetNextAccountNonce callers.
InitConc == InitSequential /\ \E start \in StartCaches : ConcStart(start)

\* All the methods, each on few arguments and replies; the clock stands still.
NextMemory ==
    \/ \E pAttributes \in PAttrs,
          rpc \in {[result |-> "VALID+id1", err |-> NoErr],
                   [result |-> ZeroValue, err |-> TransportErr]} :
           ForkchoiceUpdatedV1("fcA", pAttributes, TRUE, rpc)
    \/ \E rpc \in {[result |-> "VALID", err |-> NoErr],
                    [result |-> ZeroValue, err |-> TransportErr]} :
           NewPayloadV1("plA", TRUE, rpc)
    \/ \E signs \in BOOLEAN :
           GetPayloadV1("id1", signs, [result |-> "plA", err |-> NoErr])
    \/ ExchangeTransitionConfigurationV1("tc1",
                                         [result |-> "tc1", err |-> NoErr])
    \/ HeaderByNumberCall(HeadBlock, [result |-> 1, err |-> NoErr])
    \/ GetTotalDifficultyCall("block+td", 0)
    \/ GetNextAccountNonce("a1", [result |-> 1, err |-> NoErr], NoReply)
    \/ NextAccessors

Next ==
    NextNonce \/ NextEngine \/ NextLookup \/ NextAccessors \/ NextConc \/ NextFcU
        \/ NextSeq \/ NextStart

\* The whole client.
Spec == Init /\ [][Next]_vars

\* The nonce cache alone: GetNextAccountNonce uses only the eth connection
\* and accTxInfoMap.
SpecNonce == Init /\ [][NextNonce]_vars

\* The engine connection alone: its calls, their tokens and the call memory.
SpecEngine == Init /\ [][NextEngine]_vars

\* The lookups on the eth connection alone.
SpecLookup == Init /\ [][NextLookup]_vars

\* Two goroutines calling GetNextAccountNonce.
SpecConc == InitConc /\ [][NextConc]_vars

\* Two goroutines calling ForkchoiceUpdatedV1.
SpecFcU == Init /\ [][NextFcU]_vars

\* One driver calling ForkchoiceUpdatedV1 and NewPayloadV1 in sequence.
SpecSeq == Init /\ [][NextSeq]_vars

\* The starter alone.
SpecStart == Init /\ [][NextStart]_vars

\* Every method of the client, on few inputs.
SpecMemory == Init /\ [][NextMemory]_vars

\* ---------------------------------------------------------------- claims
\* The head lookup of the latest GetNextAccountNonce call returned a header.
HeadLookupOk ==
    /\ lastNonce.called
    /\ lastNonce.headRpc.err = NoErr
    /\ lastNonce.headRpc.result # 0

\* C1: after a successful head lookup GetNextAccountNonce makes no
\* authoritative nonce lookup exactly when the account had an entry whose
\* recorded head is the current head's hash or its parent hash; it then
\* succeeds, returns the cached nonce plus one and leaves the entry
\* (current head, returned nonce).
C1_CacheHitRule ==
    HeadLookupOk =>
        LET a == lastNonce.account
            pre == lastNonce.pre
            h == lastNonce.headRpc.result
            fresh == /\ a \in DOMAIN pre
                     /\ pre[a].PreviousBlock \in {h, h \div 2}
        IN  /\ (lastNonce.nonceLookups = 0) <=> fresh
            /\ fresh =>
                   /\ lastNonce.err = NoErr
                   /\ lastNonce.ret = pre[a].PreviousNonce + 1
                   /\ accTxInfoMap[a] =
                          [PreviousBlock |-> h, PreviousNonce |-> lastNonce.ret]

\* A hit through the parent hash: the entry was one block stale.
C1_Witness ==
    /\ HeadLookupOk
    /\ lastNonce.account \in DOMAIN lastNonce.pre
    /\ lastNonce.pre[lastNonce.account].PreviousBlock
           = lastNonce.headRpc.result \div 2
    /\ lastNonce.nonceLookups = 0
    /\ lastNonce.ret = 2

\* C2: the first call for an account without an entry makes exactly one
\* authoritative lookup and returns its result N; the second call, at an
\* unchanged head, returns N + 1 and makes no authoritative lookup.
C2_FirstThenSecond ==
    /\ (HeadLookupOk /\ lastNonce.account \notin DOMAIN lastNonce.pre) =>
           /\ lastNonce.nonceLookups = 1
           /\ lastNonce.nonceRpc.err = NoErr =>
                  /\ lastNonce.err = NoErr
                  /\ lastNonce.ret = lastNonce.nonceRpc.result
    /\ (HeadLookupOk /\ lastNonce.prior.calls = 1
            /\ lastNonce.headRpc.result = lastNonce.prior.head) =>
           /\ lastNonce.err = NoErr
           /\ lastNonce.nonceLookups = 0
           /\ lastNonce.ret = lastNonce.prior.ret + 1

\* The second call of an account, at the head of its first call.
C2_Witness ==
    /\ HeadLookupOk
    /\ lastNonce.prior.calls = 1
    /\ lastNonce.headRpc.result = lastNonce.prior.head
    /\ lastNonce.ret = lastNonce.prior.ret + 1
    /\ lastNonce.nonceLookups = 0

\* C3: in a run of successful calls for one account, each seeing a head
\* whose parent is the head the previous call saw, no call after the first
\* makes an authoritative lookup and the k-th call returns the first call's
\* result plus k - 1.
C3_WarmWhileAdvancing ==
    (HeadLookupOk /\ lastNonce.prior.calls > 0
         /\ lastNonce.headRpc.result \div 2 = lastNonce.prior.head
         /\ lastNonce.headRpc.result # lastNonce.prior.head) =>
        LET t == track[lastNonce.account]
        IN  /\ lastNonce.err = NoErr
            /\ lastNonce.nonceLookups = 0
            /\ t.advK >= 2
            /\ lastNonce.ret = t.advFirst + t.advK - 1

\* The third call of such a run.
C3_Witness ==
    /\ HeadLookupOk
    /\ lastNonce.link = "advance"
    /\ track[lastNonce.account].advK = 3
    /\ lastNonce.ret = track[lastNonce.account].advFirst + 2

\* C4: when the head a call sees is neither the head the account's previous
\* successful call saw nor a child of it, the call makes one authoritative
\* lookup at the current head's number; it fails only with that lookup's
\* error, and otherwise returns the looked-up nonce unincremented and leaves
\* the entry (current head, looked-up nonce).
C4_FallbackAfterBreak ==
    (HeadLookupOk /\ lastNonce.prior.calls > 0
         /\ lastNonce.headRpc.result # lastNonce.prior.head
         /\ lastNonce.headRpc.result \div 2 # lastNonce.prior.head) =>
        LET a == lastNonce.account
            h == lastNonce.headRpc.result
        IN  /\ lastNonce.nonceLookups = 1
            /\ lastNonce.lookupAt = Number(h)
            /\ lastNonce.err = lastNonce.nonceRpc.err
            /\ lastNonce.err = NoErr =>
                   /\ lastNonce.ret = lastNonce.nonceRpc.result
                   /\ accTxInfoMap[a] =
                          [PreviousBlock |-> h,
                           PreviousNonce |-> lastNonce.nonceRpc.result]

\* A stale entry replaced by a smaller authoritative nonce.
C4_Witness ==
    /\ HeadLookupOk
    /\ lastNonce.link = "break"
    /\ lastNonce.err = NoErr
    /\ lastNonce.account \in DOMAIN lastNonce.pre
    /\ lastNonce.ret < lastNonce.pre[lastNonce.account].PreviousNonce
    /\ accTxInfoMap[lastNonce.account].PreviousNonce = lastNonce.ret

\* C5: a call whose head lookup fails or yields no block, or whose
\* authoritative lookup fails, returns that error and leaves the whole
\* cache as it was before the call.
C5_FailureKeepsCache ==
    lastNonce.called =>
        /\ lastNonce.headRpc.err # NoErr =>
               lastNonce.err = lastNonce.headRpc.err
        /\ (lastNonce.headRpc.err = NoErr /\ lastNonce.headRpc.result = 0) =>
               lastNonce.err = NotFound
        /\ (lastNonce.nonceLookups = 1 /\ lastNonce.nonceRpc.err # NoErr) =>
               lastNonce.err = lastNonce.nonceRpc.err
        /\ lastNonce.err # NoErr =>
               /\ accTxInfoMap = lastNonce.pre
               /\ lastNonce.ret = 0

\* A failed authoritative lookup for an account that has a stale entry.
C5_Witness ==
    /\ lastNonce.called
    /\ lastNonce.nonceLookups = 1
    /\ lastNonce.err = TransportErr
    /\ lastNonce.account \in DOMAIN lastNonce.pre
    /\ accTxInfoMap = lastNonce.pre

\* C6: a call for account A leaves every other account's entry (presence,
\* recorded head, nonce) as it was.
C6_OtherAccountsUntouched ==
    lastNonce.called =>
        \A b \in Accounts \ {lastNonce.account} :
            /\ (b \in DOMAIN accTxInfoMap) <=> (b \in DOMAIN lastNonce.pre)
            /\ b \in DOMAIN lastNonce.pre =>
                   accTxInfoMap[b] = lastNonce.pre[b]

\* A call that changed its own account's entry while another account had one.
C6_Witness ==
    /\ lastNonce.called
    /\ lastNonce.err = NoErr
    /\ \E b \in Accounts \ {lastNonce.account} :
           /\ b \in DOMAIN lastNonce.pre
           /\ b \in DOMAIN accTxInfoMap
           /\ accTxInfoMap[b] = lastNonce.pre[b]
    /\ accTxInfoMap # lastNonce.pre

\* C7: the accessors show the request and the response of the latest
\* ForkchoiceUpdatedV1 call and of the latest NewPayloadV1 call, and nil for
\* a kind that was never called.
C7_AccessorsShowLatestCall ==
    /\ lastFcU.called =>
           /\ LatestForkchoiceSent = lastFcU.req
           /\ LatestForkchoiceResponse = lastFcU.ret
    /\ ~lastFcU.called =>
           /\ LatestForkchoiceSent = <<Nil, Nil>>
           /\ LatestForkchoiceResponse = Nil
    /\ lastNP.called =>
           /\ <<LatestNewPayloadSent>> = lastNP.req
           /\ LatestNewPayloadResponse = lastNP.ret
    /\ ~lastNP.called =>
           /\ LatestNewPayloadSent = Nil
           /\ LatestNewPayloadResponse = Nil

\* Two forkchoice calls in a row that differ in request and in response, the
\* second one passing no attributes; two new-payload calls with different
\* payloads.
C7_Witness ==
    /\ lastFcU.called
    /\ lastFcU.reqChanged /\ lastFcU.retChanged
    /\ lastFcU.req = <<"fcB", Nil>>
    /\ LatestForkchoiceSent = <<"fcB", Nil>>
    /\ LatestForkchoiceResponse = lastFcU.ret
    /\ lastNP.called
    /\ lastNP.reqChanged
    /\ <<LatestNewPayloadSent>> = lastNP.req

\* C8: after a forkchoice-update or new-payload call whose remote call
\* returned an error, the call memory of that kind holds the request that
\* was attempted and, as response, this call's result value (not nil).
C8_FailedCallIsRecorded ==
    (lastEngine.sent /\ lastEngine.err # NoErr) =>
        /\ lastEngine.op = "ForkchoiceUpdatedV1" =>
               /\ LatestForkchoiceSent = lastEngine.req
               /\ LatestForkchoiceResponse = lastEngine.ret
               /\ LatestForkchoiceResponse # Nil
        /\ lastEngine.op = "NewPayloadV1" =>
               /\ <<LatestNewPayloadSent>> = lastEngine.req
               /\ LatestNewPayloadResponse = lastEngine.ret
               /\ LatestNewPayloadResponse # Nil

\* A failed new-payload call after one with another payload and another
\* response.
C8_Witness ==
    /\ lastEngine.op = "NewPayloadV1"
    /\ lastEngine.sent
    /\ lastEngine.err = TransportErr
    /\ lastNP.reqChanged /\ lastNP.retChanged
    /\ LatestNewPayloadResponse = ZeroValue
    /\ <<LatestNewPayloadSent>> = lastEngine.req

\* C9: when the signing of the token fails, a privileged call returns the
\* signing error and sends no request to the node.
C9_SigningFailureStopsCall ==
    (lastEngine.op \in {"ForkchoiceUpdatedV1", "GetPayloadV1", "NewPayloadV1"}
         /\ ~lastEngine.signs) =>
        /\ lastEngine.err = SigningErr
        /\ ~lastEngine.sent

\* C10: an exchange-transition-configuration request carries no
\* Authorization header.
C10_ExchangeCarriesNoToken ==
    lastEngine.op = "ExchangeTransitionConfigurationV1" =>
        lastEngine.auth = <<>>

\* C11: every forkchoice-update, get-payload and new-payload call mints a
\* token from the client's secret and the current time before its request is
\* sent, and the request carries that token, not an earlier call's.
C11_RequestCarriesOwnToken ==
    lastEngine.op \in {"ForkchoiceUpdatedV1", "GetPayloadV1", "NewPayloadV1"} =>
        /\ lastEngine.minted # <<>>
        /\ lastEngine.minted[2] = JWTSecretBytes
        /\ lastEngine.sent => lastEngine.auth = <<"Bearer", lastEngine.minted>>

\* C13: HeaderByNumber returns NotFound exactly when the remote call succeeds
\* with a null result; a failed remote call returns its own error, never
\* NotFound; a returned header comes with no error.
C13_NotFoundOnlyOnNullResult ==
    lastLookup.op = "HeaderByNumber" =>
        /\ lastLookup.err = NotFound
               <=> (lastLookup.rpc.err = NoErr /\ lastLookup.rpc.result = 0)
        /\ lastLookup.rpc.err # NoErr => lastLookup.err = lastLookup.rpc.err
        /\ lastLookup.header # 0 =>
               lastLookup.err = NoErr /\ lastLookup.header = lastLookup.rpc.result
        /\ (lastLookup.rpc.err = NoErr /\ lastLookup.rpc.result # 0) =>
               lastLookup.err = NoErr /\ lastLookup.header = lastLookup.rpc.result

\* A lookup of a height far beyond the chain's that the node answers with null.
C13_Witness ==
    /\ lastLookup.op = "HeaderByNumber"
    /\ lastLookup.number = <<MaxHeight>>
    /\ lastLookup.rpc = [result |-> 0, err |-> NoErr]
    /\ lastLookup.err = NotFound

SentinelArgs ==
    {<<"l", "a", "t", "e", "s", "t">>, <<"p", "e", "n", "d", "i", "n", "g">>,
     <<"f", "i", "n", "a", "l", "i", "z", "e", "d">>, <<"s", "a", "f", "e">>}

HexDigits == {Text16(k)[1] : k \in 0..15}

\* The selector a node reads from a block number argument.
Selector(arg) ==
    IF arg = <<"l", "a", "t", "e", "s", "t">> THEN <<>>
    ELSE IF arg = <<"p", "e", "n", "d", "i", "n", "g">> THEN <<-2>>
    ELSE IF arg = <<"f", "i", "n", "a", "l", "i", "z", "e", "d">> THEN <<-3>>
    ELSE IF arg = <<"s", "a", "f", "e">> THEN <<-4>>
    ELSE IF Len(arg) > 2 /\ SubSeq(arg, 1, 2) = <<"0", "x">>
                 /\ \A i \in 3..Len(arg) : arg[i] \in HexDigits
        THEN <<HexValue(SubSeq(arg, 3, Len(arg)))>>
    ELSE <<-1>>

\* C14: toBlockNumArg maps nil to "latest", -2, -3, -4 to "pending",
\* "finalized", "safe", and a non-negative height to its minimal hex encoding;
\* no two selectors share an encoding, no height is encoded as a sentinel
\* string, and reading the string back gives the selector.
C14_BlockNumArgRoundTrip ==
    lastLookup.op = "HeaderByNumber" =>
        LET number == lastLookup.number
            arg == lastLookup.arg
            ordinary == number # <<>> /\ number[1] >= 0
        IN  /\ number = <<>> => arg = <<"l", "a", "t", "e", "s", "t">>
            /\ number = <<-2>> => arg = <<"p", "e", "n", "d", "i", "n", "g">>
            /\ number = <<-3>> =>
                   arg = <<"f", "i", "n", "a", "l", "i", "z", "e", "d">>
            /\ number = <<-4>> => arg = <<"s", "a", "f", "e">>
            /\ ordinary =>
                   /\ arg \notin SentinelArgs
                   /\ Len(arg) > 2 /\ SubSeq(arg, 1, 2) = <<"0", "x">>
                   /\ \A i \in 3..Len(arg) : arg[i] \in HexDigits
                   /\ Len(arg) > 3 => arg[3] # "0"
            /\ (ordinary \/ number \in {<<>>, <<-2>>, <<-3>>, <<-4>>}) =>
                   Selector(arg) = number
            /\ \A other \in Numbers :
                   toBlockNumArg(other) = arg => other = number

\* A three-digit height and the safe sentinel have both been encoded.
C14_Witness ==
    /\ lastLookup.op = "HeaderByNumber"
    /\ lastLookup.number = <<MaxHeight>>
    /\ Len(lastLookup.arg) = 5
    /\ toBlockNumArg(Safe) = <<"s", "a", "f", "e">>
    /\ Selector(lastLookup.arg) = <<MaxHeight>>

\* C15: GetTotalDifficulty returns the decoded total difficulty and no error
\* when the latest block's response has the totalDifficulty field, and an
\* error when the response is a block without that field.
C15_MissingFieldIsAnError ==
    lastLookup.op = "GetTotalDifficulty" =>
        /\ lastLookup.kind = "block+td" =>
               /\ lastLookup.ret = <<lastLookup.sent>>
               /\ lastLookup.err = NoErr
               /\ ~lastLookup.panics
        /\ lastLookup.kind = "block" => lastLookup.err # NoErr

C20_EntriesAreNeverLost ==
    /\ \A a \in Accounts : a \in DOMAIN accTxInfoMap <=> track[a].calls > 0
    /\ lastNonce.called =>
           /\ DOMAIN lastNonce.pre \subseteq DOMAIN accTxInfoMap
           /\ lastNonce.err = NoErr =>
                  /\ DOMAIN accTxInfoMap =
                         DOMAIN lastNonce.pre \cup {lastNonce.account}
                  /\ accTxInfoMap[lastNonce.account] =
                         [PreviousBlock |-> Hash(lastNonce.head),
                          PreviousNonce |-> lastNonce.ret]
           /\ lastNonce.err # NoErr =>
                  DOMAIN accTxInfoMap = DOMAIN lastNonce.pre

\* Both accounts are cached and an authoritative lookup has replaced the
\* entry one of them had.
C20_Witness ==
    /\ lastNonce.called
    /\ lastNonce.err = NoErr
    /\ DOMAIN lastNonce.pre = Accounts
    /\ lastNonce.link = "break"
    /\ lastNonce.nonceLookups = 1
    /\ accTxInfoMap[lastNonce.account] # lastNonce.pre[lastNonce.account]

\* C12: only ForkchoiceUpdatedV1 and NewPayloadV1 change the call memory:
\* every other method (GetPayloadV1, ExchangeTransitionConfigurationV1,
\* HeaderByNumber, GetTotalDifficulty, GetNextAccountNonce, the four
\* accessors) leaves the five recorded fields as they were; a
\* ForkchoiceUpdatedV1 leaves the new-payload fields and a NewPayloadV1 the
\* forkchoice fields as they were.
C12_OnlyFcUAndNewPayloadWrite ==
    [][/\ lastOp' \notin {"ForkchoiceUpdatedV1", "NewPayloadV1"} =>
              UNCHANGED <<latestFcUStateSent, latestPAttrSent, latestFcUResponse,
                          latestPayloadSent, latestPayloadStatusReponse>>
       /\ lastOp' = "ForkchoiceUpdatedV1" =>
              UNCHANGED <<latestPayloadSent, latestPayloadStatusReponse>>
       /\ lastOp' = "NewPayloadV1" =>
              UNCHANGED <<latestFcUStateSent, latestPAttrSent,
                          latestFcUResponse>>]_vars

\* With all of the memory filled and read, a nonce request was served.
C12_Witness ==
    /\ lastOp = "GetNextAccountNonce"
    /\ lastNonce.called
    /\ lastEngine.op = "GetPayloadV1"
    /\ lastLookup.op = "GetTotalDifficulty"
    /\ lastRead = <<"plA">>
    /\ latestFcUStateSent = "fcA"
    /\ latestFcUResponse = "VALID+id1"
    /\ latestPayloadStatusReponse = "VALID"

\* C16: two GetNextAccountNonce calls on different accounts, however their
\* steps interleave, return what they return when run one after the other and
\* leave the cache those two runs leave.
C16_DifferentAccountsIndependent ==
    LET running == {t \in Threads : cThreads[t].pc # "idle"}
        accounts == {cDone[i].account : i \in 1..Len(cDone)}
                        \cup {cThreads[t].account : t \in running}
    IN  (Started = 2 /\ Cardinality(accounts) = 2) =>
            /\ ~cCrashed
            /\ Len(cDone) = 2 =>
                   LET first == GetNextAccountNonceResult(cStart,
                                    cDone[1].account, cDone[1].headRpc,
                                    cDone[1].nonceRpc)
                       second == GetNextAccountNonceResult(first.map,
                                     cDone[2].account, cDone[2].headRpc,
                                     cDone[2].nonceRpc)
                   IN  /\ cDone[1].ret = first.ret /\ cDone[1].err = first.err
                       /\ cDone[2].ret = second.ret /\ cDone[2].err = second.err
                       /\ CacheView = second.map

\* C17: when the calls on an account do not overlap one another, two
\* consecutive successful calls on it that saw the same head return different
\* nonces.  (That overlapping calls on one account can return the same nonce
\* is the other half of the claim.)
C17_SerializedCallsDiffer ==
    \A i, j \in 1..Len(cDone) :
        (/\ i < j
         /\ cDone[i].account = cDone[j].account
         /\ \A k \in (i + 1)..(j - 1) : cDone[k].account # cDone[i].account
         /\ ~cDone[i].overlap /\ ~cDone[j].overlap
         /\ cDone[i].err = NoErr /\ cDone[j].err = NoErr
         /\ cDone[i].head = cDone[j].head)
            => cDone[i].ret # cDone[j].ret

\* C18: after two concurrent ForkchoiceUpdatedV1 calls have returned,
\* LatestForkchoiceResponse is the result of the call that wrote the response
\* last, and LatestForkchoiceSent is the request of the call that wrote the
\* request last.
C18_LastWriterWins ==
    (\A t \in FThreads : fThreads[t].pc = "returned") =>
        /\ LatestForkchoiceResponse = fThreads[fWriter.response].rpc.result
        /\ LatestForkchoiceSent = <<fThreads[fWriter.attributes].fcState,
                                    fThreads[fWriter.attributes].pAttributes>>

\* C18, amended: each recorded field on its own is the last one written: the
\* response is the result of the call that wrote the response last, the
\* forkchoice state that of the call that wrote the state last, the
\* attributes those of the call that wrote the attributes last; the state and
\* the attributes may come from different calls.
C18_LastWriterWinsPerField ==
    /\ fWriter.response # "none" =>
           LatestForkchoiceResponse = fThreads[fWriter.response].rpc.result
    /\ fWriter.state # "none" =>
           LatestForkchoiceSent[1] = fThreads[fWriter.state].fcState
    /\ fWriter.attributes # "none" =>
           LatestForkchoiceSent[2] = fThreads[fWriter.attributes].pAttributes

\* Both calls have returned; the recorded state is one call's, the recorded
\* attributes the other's, and the response is the second call's.
C18_Witness ==
    /\ \A t \in FThreads : fThreads[t].pc = "returned"
    /\ fWriter.state # fWriter.attributes
    /\ fThreads["f1"].fcState # fThreads["f2"].fcState
    /\ fThreads["f1"].pAttributes # fThreads["f2"].pAttributes
    /\ fThreads["f1"].rpc # fThreads["f2"].rpc
    /\ LatestForkchoiceResponse = fThreads[fWriter.response].rpc.result

\* C21: with the calls made one after the other, whenever no call of a kind
\* is in progress the recorded request and the recorded response of that kind
\* are those of one and the same call: of none before the first call of the
\* kind, of the latest call of the kind afterwards.  A request and a response
\* of different calls are recorded only inside a call, after its first
\* request write and before its response write.
C21_PairIsOfOneCall ==
    LET inFcU == sCall.kind = "ForkchoiceUpdatedV1"
                     /\ sCall.pc \in {"attributes", "call", "response"}
        inNP == sCall.kind = "NewPayloadV1" /\ sCall.pc \in {"call", "response"}
    IN  /\ ~inFcU =>
               /\ sWriter.state = sWriter.attributes
               /\ sWriter.state = sWriter.fcuResponse
               /\ (sWriter.state = 0) = ~lastFcU.called
               /\ IF lastFcU.called
                      THEN /\ LatestForkchoiceSent = lastFcU.req
                           /\ LatestForkchoiceResponse = lastFcU.ret
                      ELSE /\ LatestForkchoiceSent = <<Nil, Nil>>
                           /\ LatestForkchoiceResponse = Nil
        /\ ~inNP =>
               /\ sWriter.payload = sWriter.npResponse
               /\ (sWriter.payload = 0) = ~lastNP.called
               /\ IF lastNP.called
                      THEN /\ <<LatestNewPayloadSent>> = lastNP.req
                           /\ LatestNewPayloadResponse = lastNP.ret
                      ELSE /\ LatestNewPayloadSent = Nil
                           /\ LatestNewPayloadResponse = Nil
        /\ inFcU => sWriter.state = sCall.n /\ sWriter.fcuResponse < sCall.n
        /\ inNP => sWriter.payload = sCall.n /\ sWriter.npResponse < sCall.n

\* The second forkchoice call is waiting for the node: its request is
\* recorded beside the response of the first call, which asked something else.
C21_Witness ==
    /\ sCall.kind = "ForkchoiceUpdatedV1"
    /\ sCall.pc = "call"
    /\ sWriter.state = 2 /\ sWriter.attributes = 2 /\ sWriter.fcuResponse = 1
    /\ lastFcU.called
    /\ LatestForkchoiceSent = sCall.req
    /\ LatestForkchoiceSent # lastFcU.req
    /\ LatestForkchoiceResponse = lastFcU.ret

\* C22: StartClient returns an error, starts no node and constructs no client
\* when /genesis.json is not among the files, or when the starter has no
\* terminal total difficulty of its own and the
\* HIVE_TERMINAL_TOTAL_DIFFICULTY parameter is there but does not parse; the
\* error is the one of that check unless an earlier check has failed; the
\* node is started only when every check has passed.
C22_NoStartOnBadConfiguration ==
    lastStart.called =>
        LET in == lastStart.in[1]
            out == lastStart.out
            typeKnown == in.ClientType # <<>> \/ in.clientTypes = "listed"
            noGenesis == in.genesis = <<>>
            str == in.ttdParam[1]
            digits == IF str # <<>> /\ str[1] \in {"+", "-"}
                          THEN Tail(str) ELSE str
            decimal == /\ digits # <<>>
                       /\ \A i \in 1..Len(digits) :
                              digits[i] \in {"0", "1", "2", "3", "4",
                                             "5", "6", "7", "8", "9"}
            badTTD == /\ in.TerminalTotalDifficulty = <<>>
                      /\ in.ttdParam # <<>>
                      /\ ~decimal
        IN  /\ (noGenesis \/ badTTD) =>
                   /\ out.err \in {ClientTypesErr, NoClientTypesErr,
                                   GenesisErr, ParseTTDErr}
                   /\ ~out.started
                   /\ out.client = <<>>
            /\ (typeKnown /\ noGenesis) => out.err = GenesisErr
            /\ (typeKnown /\ ~noGenesis /\ badTTD) => out.err = ParseTTDErr
            /\ out.started =>
                   /\ typeKnown /\ ~noGenesis /\ ~badTTD
                   /\ in.bootClients # "error"
            /\ out.client # <<>> => out.started /\ out.err = NoErr

\* A starter with a genesis file and no terminal total difficulty of its own
\* was given a parameter that is no decimal number.
C22_Witness ==
    /\ lastStart.called
    /\ lastStart.in[1].genesis # <<>>
    /\ lastStart.in[1].ClientType # <<>>
    /\ lastStart.in[1].TerminalTotalDifficulty = <<>>
    /\ lastStart.in[1].ttdParam = <<<<"0", "x", "1">>>>
    /\ lastStart.out.err = ParseTTDErr
    /\ ~lastStart.out.started

====
